---- MODULE Spec2Model ----
(***************************************************************************)
(* Model of adobe_mcp/auth.py: the OAuth 2.0 authorization-code-with-PKCE  *)
(* client (token cache, refresh, redirect listener, code exchange).        *)
(*                                                                         *)
(* One caller thread runs get_authorization_header() and authenticate();   *)
(* the redirect listener (socketserver.TCPServer + CallbackHandler) runs   *)
(* in its own thread and shares the class attribute CallbackHandler.code   *)
(* with the polling loop of get_authorization_code().                      *)
(***************************************************************************)
EXTENDS Integers, Sequences, FiniteSets, TLC

\* ------------------------------------------------------------------ bounds
\* Clock reading (int(time.time())) of the initial state.
StartTime == 100000
\* Number of distinct PKCE verifiers the entropy source can produce here.
MaxVerifier == 2
\* A provider lifetime shorter than the refresh margin.
ShortLife == 100

\* ------------------------------------------------------- program constants
\* load_tokens: "expires_in - 300", refresh 5 minutes before expiry.
REFRESH_MARGIN == 300
\* load_tokens: token_data.get("expires_in", 86400)
DEFAULT_EXPIRES_IN == 86400
\* load_tokens: token_data.get("timestamp", 0)
DEFAULT_TIMESTAMP == 0
\* get_authorization_code: timeout = 300
timeout == 300
\* The lifetime of the spec's scenarios (expires_in: 3600).
HourLife == 3600

\* ------------------------------------------------------------ value domains
\* A JSON key that is not present / Python None.
NoTok == "none"
\* A numeric JSON key that is not present.
Missing == -1

AccessTokens == {"tok1", "tok2"}
RefreshTokens == {"r1", "r2"}
\* The refresh tokens the provider issues during the run.
IssuedRefreshTokens == {"r2"}
Codes == {"ABC123", "XYZ789"}
Lifetimes == {ShortLife, HourLife}
Verifiers == 1..MaxVerifier
\* The clock is read at these offsets from StartTime (seconds): at the start,
\* one second later, exactly at / one second past the 300 s timeout, and an
\* hour later.
ClockReadings == {0, 1, timeout, timeout + 1, HourLife}

\* Content of ~/.adobe_mcp/tokens.json.  kind "absent": no file;
\* kind "malformed": a file json.load cannot parse; kind "record": a JSON
\* object with the listed keys (NoTok / Missing: key not present).
AbsentFile ==
  [kind |-> "absent", access_token |-> NoTok, refresh_token |-> NoTok,
   expires_in |-> Missing, timestamp |-> Missing]

MalformedFile ==
  [kind |-> "malformed", access_token |-> NoTok, refresh_token |-> NoTok,
   expires_in |-> Missing, timestamp |-> Missing]

TokenRecord(at, rt, ei, ts) ==
  [kind |-> "record", access_token |-> at, refresh_token |-> rt,
   expires_in |-> ei, timestamp |-> ts]

\* Answers of the token endpoint (httpx.Client.post): "ok" is status 200 with
\* a JSON body, "rejected" a non-200 status, "transport" an httpx exception
\* (connect error, request timeout).
\* A 200 body has access_token and expires_in, optionally refresh_token; one
\* of the bodies also carries a "timestamp" key of the provider's own.
ProviderTimestamp == 5

OkResponses ==
  [status : {"ok"}, access_token : AccessTokens,
   refresh_token : IssuedRefreshTokens \cup {NoTok},
   expires_in : Lifetimes, timestamp : {Missing}]
  \cup
  {[status |-> "ok", access_token |-> "tok2", refresh_token |-> NoTok,
    expires_in |-> HourLife, timestamp |-> ProviderTimestamp]}

NoResponse ==
  [status |-> "none", access_token |-> NoTok, refresh_token |-> NoTok,
   expires_in |-> Missing, timestamp |-> Missing]

Rejected == [NoResponse EXCEPT !.status = "rejected"]

TransportFailure == [NoResponse EXCEPT !.status = "transport"]

Responses == OkResponses \cup {Rejected, TransportFailure}

\* ---------------------------------------------------------- pure functions
\* generate_code_challenge for the "plain" method: the verifier itself.
generate_code_challenge_plain(verifier) == verifier

\* generate_code_challenge: base64url(SHA-256(verifier)) without padding,
\* modelled as a fixed injective digest on the verifier domain.
generate_code_challenge(verifier) == (verifier * 7 + 3) % 11

\* ExpiresIn with one hour as the default lifetime.
ExpiresIn_hour(token_data) ==
  IF token_data.expires_in = Missing THEN HourLife
  ELSE token_data.expires_in

\* load_tokens line 164: token_data.get("expires_in", 86400)
ExpiresIn(token_data) ==
  IF token_data.expires_in = Missing THEN DEFAULT_EXPIRES_IN
  ELSE token_data.expires_in

\* load_tokens line 165: token_data.get("timestamp", 0)
Timestamp(token_data) ==
  IF token_data.timestamp = Missing THEN DEFAULT_TIMESTAMP
  ELSE token_data.timestamp

\* IsStale without the margin: a token counts as fresh until it expires.
IsStale_nomargin(token_data, current_time) ==
  current_time - Timestamp(token_data) > ExpiresIn(token_data)

\* IsStale with the subtraction turned round: timestamp - current_time.
IsStale_swapped(token_data, current_time) ==
  Timestamp(token_data) - current_time > ExpiresIn(token_data) - REFRESH_MARGIN

\* IsStale with ">=" for ">": the boundary second counts as stale.
IsStale_ge(token_data, current_time) ==
  current_time - Timestamp(token_data) >= ExpiresIn(token_data) - REFRESH_MARGIN

\* load_tokens line 168: the staleness test.
IsStale(token_data, current_time) ==
  current_time - Timestamp(token_data) > ExpiresIn(token_data) - REFRESH_MARGIN

\* save_tokens with setdefault for the assignment: a timestamp already in the
\* data is kept.
save_tokens_keep(token_data, current_time) ==
  IF token_data.timestamp # Missing THEN token_data
  ELSE [token_data EXCEPT !.timestamp = current_time]

\* save_tokens: stamps the timestamp and returns what it wrote.
save_tokens(token_data, current_time) ==
  [token_data EXCEPT !.timestamp = current_time]

\* response.json() of a 200 answer, as a dict.
ResponseJson(resp) ==
  TokenRecord(resp.access_token, resp.refresh_token, resp.expires_in,
              resp.timestamp)

\* MergeRefreshToken without the merge: the response is saved as it came.
MergeRefreshToken_drop(new_token_data, token_data) == new_token_data

\* load_tokens lines 174-175: keep the refresh token if the response has none.
MergeRefreshToken(new_token_data, token_data) ==
  IF new_token_data.refresh_token = NoTok /\ token_data.refresh_token # NoTok
  THEN [new_token_data EXCEPT !.refresh_token = token_data.refresh_token]
  ELSE new_token_data

\* Result of load_tokens(): what it returned or raised, the file it left,
\* the refresh token it sent to the token endpoint (NoTok: no request) and
\* whether it wrote the file.
Outcome(out, data, file, exc, sent, wrote) ==
  [out |-> out, data |-> data, file |-> file, exc |-> exc, sent |-> sent,
   wrote |-> wrote]

\* OnRefreshAuthError without the except clause: AuthError propagates.
OnRefreshAuthError_raise(file) ==
  [out |-> "raise", data |-> AbsentFile, file |-> file, exc |-> "AuthError",
   sent |-> file.refresh_token, wrote |-> FALSE]

\* OnRefreshAuthError falling through to line 181: the stale record is
\* returned.
OnRefreshAuthError_stale(file) ==
  Outcome("data", file, file, "none", file.refresh_token, FALSE)

\* load_tokens lines 177-179: "except AuthError: ... return None".
OnRefreshAuthError(file) ==
  Outcome("None", AbsentFile, file, "none", file.refresh_token, FALSE)

\* load_tokens that saves the refreshed record but returns the one it read.
load_tokens_old(file, current_time, resp) ==
  IF file.kind = "absent"
  THEN Outcome("None", AbsentFile, file, "none", NoTok, FALSE)
  ELSE IF file.kind = "malformed"
  THEN Outcome("raise", AbsentFile, file, "JSONDecodeError", NoTok, FALSE)
  ELSE IF IsStale(file, current_time) /\ file.refresh_token # NoTok
  THEN CASE resp.status = "ok" ->
              LET saved == save_tokens(MergeRefreshToken(ResponseJson(resp), file),
                                       current_time)
              IN Outcome("data", file, saved, "none", file.refresh_token, TRUE)
         [] resp.status = "rejected" -> OnRefreshAuthError(file)
         [] OTHER ->
              Outcome("raise", AbsentFile, file, "TransportError",
                      file.refresh_token, FALSE)
  ELSE Outcome("data", file, file, "none", NoTok, FALSE)

\* load_tokens without the staleness test: a record with a refresh token is
\* refreshed on every load.
load_tokens_eager(file, current_time, resp) ==
  IF file.kind = "absent"
  THEN Outcome("None", AbsentFile, file, "none", NoTok, FALSE)
  ELSE IF file.kind = "malformed"
  THEN Outcome("raise", AbsentFile, file, "JSONDecodeError", NoTok, FALSE)
  ELSE IF file.refresh_token # NoTok
  THEN CASE resp.status = "ok" ->
              LET saved == save_tokens(MergeRefreshToken(ResponseJson(resp), file),
                                       current_time)
              IN Outcome("data", saved, saved, "none", file.refresh_token, TRUE)
         [] resp.status = "rejected" -> OnRefreshAuthError(file)
         [] OTHER ->
              Outcome("raise", AbsentFile, file, "TransportError",
                      file.refresh_token, FALSE)
  ELSE Outcome("data", file, file, "none", NoTok, FALSE)

\* load_tokens(): file is the cache content, current_time the clock, resp the
\* token endpoint's answer to the refresh request if one is sent.
load_tokens(file, current_time, resp) ==
  IF file.kind = "absent"
  THEN Outcome("None", AbsentFile, file, "none", NoTok, FALSE)
  ELSE IF file.kind = "malformed"
  THEN Outcome("raise", AbsentFile, file, "JSONDecodeError", NoTok, FALSE)
  ELSE IF IsStale(file, current_time) /\ file.refresh_token # NoTok
  THEN CASE resp.status = "ok" ->
              LET saved == save_tokens(MergeRefreshToken(ResponseJson(resp), file),
                                       current_time)
              IN Outcome("data", saved, saved, "none", file.refresh_token, TRUE)
         [] resp.status = "rejected" -> OnRefreshAuthError(file)
         [] OTHER ->
              Outcome("raise", AbsentFile, file, "TransportError",
                      file.refresh_token, FALSE)
  ELSE Outcome("data", file, file, "none", NoTok, FALSE)

\* get_authorization_header / authenticate: "token_data and 'access_token'
\* in token_data".
HasAccessToken(o) ==
  o.out = "data" /\ o.data.kind = "record" /\ o.data.access_token # NoTok

Bearer(access_token) == <<"Bearer", access_token>>

NoHeader == <<>>

\* EntersConsentFlow for every entry point: get_authorization_header calling
\* authenticate() instead of load_tokens().
EntersConsentFlow_any(op, o) ==
  o.out # "raise" /\ ~(o.out = "data" /\ o.data.access_token # NoTok)

\* get_authorization_header returns after the cache check; authenticate
\* goes on to get_authorization_code() when the check yields no token.
EntersConsentFlow(op, o) ==
  op = "authenticate" /\ o.out # "raise" /\ ~HasAccessToken(o)

\* get_access_token without the status check: the body of a non-200 answer
\* is returned as token data.
get_access_token_nostatus(resp) ==
  IF resp.status = "transport"
  THEN [out |-> "raise", data |-> AbsentFile, exc |-> "TransportError"]
  ELSE [out |-> "data", data |-> ResponseJson(resp), exc |-> "none"]

\* get_access_token(auth_code, code_verifier): resp is the endpoint's answer.
get_access_token(resp) ==
  CASE resp.status = "ok" -> [out |-> "data", data |-> ResponseJson(resp), exc |-> "none"]
    [] resp.status = "rejected" -> [out |-> "AuthError", data |-> AbsentFile, exc |-> "AuthError"]
    [] OTHER -> [out |-> "raise", data |-> AbsentFile, exc |-> "TransportError"]

\* ------------------------------------------------------------------- state
VARIABLES
  now,            \* int(time.time())
  cache,          \* content of ~/.adobe_mcp/tokens.json
  code,           \* CallbackHandler.code (class attribute)
  server,         \* the TCPServer socket: "none", "serving", "shutdown", or
                  \* "handling": serving, with the one server thread inside
                  \* a handler that waits for a request line
  pc,             \* position of the caller thread
  start_time,     \* get_authorization_code: start_time
  code_verifier,  \* get_authorization_code: code_verifier
  auth_code,      \* authenticate: auth_code
  call,           \* the call in progress or last finished: op, clock, cache before
  eff,            \* what that call has done so far
  result,         \* what the call returned or raised (pc = "done")
  prev_exchange,  \* access token saved by the previous call, if that call was
                  \* an authenticate() that found no file and exchanged a code
  hist            \* what has happened to the values the program holds now:
                  \* stale_seen: the clock reading at which the cached record
                  \*   was first judged stale since it was written (Missing:
                  \*   never); rejected: the provider has refused the
                  \*   cached refresh token; code_sent: CallbackHandler.code
                  \*   was already sent to the token endpoint; saved: the
                  \*   record the most recent successful refresh or exchange
                  \*   handed to save_tokens and got back (AbsentFile: none)

vars == <<now, cache, code, server, pc, start_time, code_verifier, auth_code,
          call, eff, result, prev_exchange, hist>>

NoVerifier == 0

\* The resource-API wrappers of adobe_mcp/connections.
Connections == {"Lightroom", "Aero"}

\* lightroom.py line 26 and aero.py line 51: the error get_headers raises.
NotAuthenticated(conn) ==
  IF conn = "Lightroom" THEN "LightroomError" ELSE "AeroError"

\* get_headers without the "if not auth_header" test: the headers are built
\* with whatever get_authorization_header() returned.
get_headers_nocheck(conn, auth_header) ==
  [out |-> "headers", exc |-> "none", Authorization |-> auth_header]

\* LightroomConnection.get_headers / AeroConnection.get_headers: auth_header
\* is what auth.get_authorization_header() returned (NoHeader: None).
get_headers(conn, auth_header) ==
  IF auth_header = NoHeader
  THEN [out |-> "raise", exc |-> NotAuthenticated(conn),
        Authorization |-> NoHeader]
  ELSE [out |-> "headers", exc |-> "none", Authorization |-> auth_header]

\* LightroomConnection.get_catalogs lines 36-37 (and every other Lightroom
\* method): self.client.get(..., headers=headers) runs once get_headers has
\* returned.  No AeroConnection method sends a request.
SendsRequest(conn, h) == conn = "Lightroom" /\ h.out = "headers"

\* What a call has done so far.  judged: the staleness test's verdict on the
\* cached record; stale_before / refresh_retry / exchange_resent: hist as the
\* call found it; port_busy: another process held port 8000 at the bind;
\* denied / first_code / http_status: what the handler saw while the call
\* waited (a request without code, the first code captured, its last answer);
\* conn: the wrapper whose get_headers made the call ("none": a direct
\* call); api_error: what the wrapper raised; api_sent / api_authorization:
\* the resource request it sent and that request's Authorization header.
NoEffects ==
  [refresh_sent |-> 0, refresh_token |-> NoTok, refresh_resp |-> NoResponse,
   pkce |-> FALSE, listener |-> FALSE, browser |-> FALSE, challenge |-> Missing,
   exchange_sent |-> 0, exchange_code |-> NoTok, exchange_verifier |-> NoVerifier,
   exchange_resp |-> NoResponse, writes |-> 0,
   judged |-> "none", stale_before |-> Missing, refresh_retry |-> FALSE,
   exchange_resent |-> FALSE, port_busy |-> FALSE,
   denied |-> FALSE, first_code |-> NoTok, http_status |-> "none",
   conn |-> "none", api_error |-> "none", api_sent |-> FALSE,
   api_authorization |-> NoHeader]

NoHistory ==
  [stale_seen |-> Missing, rejected |-> FALSE, code_sent |-> FALSE,
   saved |-> AbsentFile]

NoCall == [op |-> "none", at |-> Missing, pre |-> AbsentFile]

NoResult ==
  [kind |-> "none", data |-> AbsentFile, header |-> NoHeader, exc |-> "none",
   at |-> Missing]

Returned(kind, data, header, exc, at) ==
  [kind |-> kind, data |-> data, header |-> header, exc |-> exc, at |-> at]

\* The files the program can find when it starts: none, an unparseable one,
\* or a record it saved earlier (just now, or HourLife - REFRESH_MARGIN
\* seconds ago, the last moment a one-hour token still counts as fresh), and
\* the one-hour records of the design's examples, saved 3400 s and 100 s ago;
\* or a record some other tool wrote: without a timestamp, or without a
\* lifetime and as old as the default lifetime allows a fresh record to be.
InitFiles ==
  {AbsentFile, MalformedFile} \cup
  { TokenRecord("tok0", rt, ei, ts) :
      rt \in {NoTok, "r1"}, ei \in Lifetimes \cup {Missing},
      ts \in {StartTime - (HourLife - REFRESH_MARGIN), StartTime} } \cup
  { TokenRecord("tok0", rt, HourLife, ts) :
      rt \in {NoTok, "r1"}, ts \in {StartTime - 3400, StartTime - 100} } \cup
  { TokenRecord("tok0", rt, Missing, Missing) : rt \in {NoTok, "r1"} } \cup
  { TokenRecord("tok0", "r1", HourLife, Missing),
    TokenRecord("tok0", "r1", Missing,
                StartTime - (DEFAULT_EXPIRES_IN - REFRESH_MARGIN)) }

Init ==
  /\ now = StartTime
  /\ cache \in InitFiles
  /\ code = NoTok
  /\ server = "none"
  /\ pc = "idle"
  /\ start_time = Missing
  /\ code_verifier = NoVerifier
  /\ auth_code = NoTok
  /\ call = NoCall
  /\ eff = NoEffects
  /\ result = NoResult
  /\ prev_exchange = NoTok
  /\ hist = NoHistory

\* Posts with a retry loop: a non-200 answer is followed by a second POST.
Posts_retry(resp) == IF resp.status = "rejected" THEN 2 ELSE 1

\* refresh_access_token line 132 and get_access_token line 115: the number
\* of POSTs one call of either makes; client.post runs once whatever the
\* answer is.
Posts(resp) == 1

\* Effects of the load_tokens() part of a call.
LoadEffects(o, resp) ==
  [NoEffects EXCEPT
     !.refresh_sent = IF o.sent # NoTok THEN Posts(resp) ELSE 0,
     !.refresh_token = o.sent,
     !.refresh_resp = IF o.sent # NoTok THEN resp ELSE NoResponse,
     !.writes = IF o.wrote THEN 1 ELSE 0]

\* ----------------------------------------------------------------- actions
\* Time passes.  A finished call hands its result over before the clock is
\* read again.
Tick(d) ==
  /\ pc # "done"
  /\ StartTime + d > now
  /\ now' = StartTime + d
  /\ UNCHANGED <<cache, code, server, pc, start_time, code_verifier,
                 auth_code, call, eff, result, prev_exchange, hist>>

\* The verdict of load_tokens line 168 on the file it read.
Judgement(file, current_time) ==
  IF file.kind # "record" THEN "none"
  ELSE IF IsStale(file, current_time) THEN "stale" ELSE "fresh"

\* BindFails with allow_reuse_port: the bind never fails.
BindFails_never(busy, srv) == FALSE

\* get_authorization_code line 67: TCPServer(("localhost", 8000), ...) raises
\* OSError when the port is held, by another process (busy) or by a socket
\* of this process that was not closed (srv).
BindFails(busy, srv) == busy \/ srv # "none"

\* The cache check both entry points begin with (load_tokens, then the
\* access_token test) and, for authenticate(), the start of the consent flow
\* up to the polling loop: get_authorization_code() lines 61-90.  v is the
\* verifier drawn from the entropy source, busy tells whether another process
\* holds port 8000, conn the wrapper whose get_headers() made the call.
CachePath(op, resp, v, busy, conn) ==
  /\ pc = "idle"
  /\ LET o == load_tokens(cache, now, resp)
         h == get_headers(conn, IF HasAccessToken(o)
                                THEN Bearer(o.data.access_token)
                                ELSE NoHeader)
         sends == conn # "none" /\ o.out # "raise" /\ SendsRequest(conn, h)
         le == [LoadEffects(o, resp) EXCEPT
                  !.judged = Judgement(cache, now),
                  !.stale_before = hist.stale_seen,
                  !.refresh_retry = o.sent # NoTok /\ hist.rejected,
                  !.conn = conn,
                  !.api_error = IF conn = "none" THEN "none"
                                ELSE IF o.out = "raise" THEN o.exc
                                ELSE h.exc,
                  !.api_sent = sends,
                  !.api_authorization =
                     IF sends THEN h.Authorization ELSE NoHeader]
     IN /\ cache' = o.file
        /\ call' = [op |-> op, at |-> now, pre |-> cache]
        /\ hist' = [hist EXCEPT
                      !.stale_seen =
                         IF o.wrote THEN Missing
                         ELSE IF Judgement(cache, now) = "stale" /\ @ = Missing
                         THEN now
                         ELSE @,
                      !.rejected =
                         IF o.wrote THEN FALSE
                         ELSE IF o.sent # NoTok /\ resp.status = "rejected"
                         THEN TRUE ELSE @,
                      !.saved = IF o.wrote THEN o.data ELSE @]
        /\ IF o.out = "raise"
           THEN /\ result' = Returned("raise", AbsentFile, NoHeader, o.exc, now)
                /\ eff' = le
                /\ pc' = "done"
                /\ UNCHANGED <<server, start_time, code_verifier>>
           ELSE IF ~EntersConsentFlow(op, o)
           THEN /\ result' =
                     IF ~HasAccessToken(o)
                     THEN Returned("None", AbsentFile, NoHeader, "none", now)
                     ELSE IF op = "header"
                     THEN Returned("header", o.data,
                                   Bearer(o.data.access_token), "none", now)
                     ELSE Returned("record", o.data, NoHeader, "none", now)
                /\ eff' = le
                /\ pc' = "done"
                /\ UNCHANGED <<server, start_time, code_verifier>>
           ELSE IF BindFails(busy, server)
           THEN \* TCPServer(...) raises OSError: address already in use
                /\ result' = Returned("raise", AbsentFile, NoHeader, "OSError", now)
                /\ eff' = [le EXCEPT !.pkce = TRUE, !.port_busy = busy]
                /\ pc' = "done"
                /\ UNCHANGED <<server, start_time, code_verifier>>
           ELSE /\ server' = "serving"
                /\ code_verifier' = v
                /\ start_time' = now
                /\ pc' = "wait"
                /\ eff' = [le EXCEPT !.pkce = TRUE, !.listener = TRUE,
                                     !.browser = TRUE, !.port_busy = busy,
                                     !.challenge = generate_code_challenge(v)]
                /\ result' = NoResult
  /\ UNCHANGED <<now, code, auth_code, prev_exchange>>

\* get_authorization_header(), lines 183-190.
get_authorization_header(resp) ==
  CachePath("header", resp, NoVerifier, FALSE, "none")

\* LightroomConnection.get_catalogs() (lightroom.py lines 34-37) and
\* AeroConnection.get_headers() (aero.py lines 44-57): get_headers(), which
\* calls auth.get_authorization_header(), and then the request if there is
\* one.
ConnectionCall(conn, resp) ==
  CachePath("header", resp, NoVerifier, FALSE, conn)

\* authenticate(), lines 192-202, up to the wait for the redirect.
authenticate(resp, v, busy) ==
  CachePath("authenticate", resp, v, busy, "none")

\* CallbackHandler.do_GET lines 45-46: the class attribute after a request
\* whose code parameter is q (NoTok: the request has none).
StoreCode(held, q) == IF q # NoTok THEN q ELSE held

\* CallbackHandler.do_GET lines 47 and 52: the status line of the answer.
HttpStatus(q) == IF q # NoTok THEN "200" ELSE "400"

\* CallbackHandler.do_GET, lines 40-55, run by the server thread.
do_GET(q) ==
  /\ server = "serving"
  /\ code' = StoreCode(code, q)
  /\ eff' = IF pc \in {"wait", "stop"}
            THEN [eff EXCEPT
                    !.denied = @ \/ (q = NoTok /\ pc = "wait" /\ eff.first_code = NoTok),
                    !.first_code = IF @ = NoTok THEN q ELSE @,
                    !.http_status = HttpStatus(q)]
            ELSE eff
  /\ hist' = IF StoreCode(code, q) # code \/ q # NoTok
             THEN [hist EXCEPT !.code_sent = FALSE] ELSE hist
  /\ UNCHANGED <<now, cache, server, pc, start_time, code_verifier, auth_code,
                 call, result, prev_exchange>>

\* get_authorization_code lines 67-70: a client connects to port 8000 and
\* sends nothing.  TCPServer handles requests in the serve_forever thread
\* itself and CallbackHandler sets no socket timeout, so the thread blocks
\* reading the request line; further requests wait in the backlog.
IdleConnection ==
  /\ pc \in {"wait", "stop"}
  /\ server = "serving"
  /\ server' = "handling"
  /\ UNCHANGED <<now, cache, code, pc, start_time, code_verifier, auth_code,
                 call, eff, result, prev_exchange, hist>>

\* The silent client closes its connection: the handler returns and the
\* serve_forever loop runs again.
ConnectionClosed ==
  /\ server = "handling"
  /\ server' = "serving"
  /\ UNCHANGED <<now, cache, code, pc, start_time, code_verifier, auth_code,
                 call, eff, result, prev_exchange, hist>>

\* get_authorization_code line 92: the loop test finds a code.
PollCode ==
  /\ pc = "wait"
  /\ code # NoTok
  /\ pc' = "stop"
  /\ UNCHANGED <<now, cache, code, server, start_time, code_verifier,
                 auth_code, call, eff, result, prev_exchange, hist>>

\* get_authorization_code lines 93-95 and authenticate lines 205-207: the
\* wait timed out; AuthError is caught by authenticate, which returns None.
\* server.shutdown() returns once the serve_forever loop has left, which it
\* cannot do while it is inside a handler.
PollTimeout ==
  /\ pc = "wait"
  /\ code = NoTok
  /\ now - start_time > timeout
  /\ server = "serving"
  /\ server' = "shutdown"
  /\ pc' = "done"
  /\ start_time' = Missing
  /\ code_verifier' = NoVerifier
  /\ result' = Returned("None", AbsentFile, NoHeader, "none", now)
  /\ UNCHANGED <<now, cache, code, auth_code, call, eff, prev_exchange, hist>>

\* get_authorization_code lines 83-96: an exception other than AuthError is
\* raised once the server thread runs (print on a closed stream, Ctrl-C in
\* time.sleep); nothing catches it, so it leaves authenticate() with the
\* server still serving.
Interrupt ==
  /\ pc = "wait"
  /\ pc' = "done"
  /\ start_time' = Missing
  /\ code_verifier' = NoVerifier
  /\ result' = Returned("raise", AbsentFile, NoHeader, "KeyboardInterrupt", now)
  /\ UNCHANGED <<now, cache, code, server, auth_code, call, eff,
                 prev_exchange, hist>>

\* get_authorization_code lines 99-101: stop the server, then read the code.
ShutdownServer ==
  /\ pc = "stop"
  /\ server = "serving"
  /\ server' = "shutdown"
  /\ auth_code' = code
  /\ pc' = "exchange"
  /\ UNCHANGED <<now, cache, code, start_time, code_verifier, call, eff,
                 result, prev_exchange, hist>>

\* ExchangeFile without save_tokens: the token data is returned, not saved.
ExchangeFile_nosave(g, file, current_time) == file

\* ExchangeFile with save_tokens outside the try: it runs on failure too.
ExchangeFile_always(g, file, current_time) == save_tokens(g.data, current_time)

\* authenticate lines 203-204: the file after the exchange; save_tokens runs
\* only when get_access_token returned.
ExchangeFile(g, file, current_time) ==
  IF g.out = "data" THEN save_tokens(g.data, current_time) ELSE file

\* authenticate lines 203-207: get_access_token, then save_tokens.
Exchange(resp) ==
  /\ pc = "exchange"
  /\ LET g == get_access_token(resp)
         saved == save_tokens(g.data, now)
     IN /\ cache' = ExchangeFile(g, cache, now)
        /\ result' =
             CASE g.out = "data" -> Returned("record", saved, NoHeader, "none", now)
               [] g.out = "AuthError" -> Returned("None", AbsentFile, NoHeader, "none", now)
               [] OTHER -> Returned("raise", AbsentFile, NoHeader, g.exc, now)
        /\ eff' = [eff EXCEPT !.exchange_sent = @ + Posts(resp),
                              !.exchange_code = auth_code,
                              !.exchange_verifier = code_verifier,
                              !.exchange_resp = resp,
                              !.exchange_resent = hist.code_sent,
                              !.writes = IF g.out = "data" THEN @ + 1 ELSE @]
        /\ hist' = [hist EXCEPT
                      !.code_sent = TRUE,
                      !.stale_seen = IF g.out = "data" THEN Missing ELSE @,
                      !.rejected = IF g.out = "data" THEN FALSE ELSE @,
                      !.saved = IF g.out = "data" THEN saved ELSE @]
  /\ pc' = "done"
  /\ start_time' = Missing
  /\ code_verifier' = NoVerifier
  /\ auth_code' = NoTok
  /\ UNCHANGED <<now, code, server, call, prev_exchange>>

\* The caller takes the result of the finished call.
Return ==
  /\ pc = "done"
  /\ pc' = "idle"
  /\ prev_exchange' =
       IF /\ call.op = "authenticate" /\ call.pre.kind = "absent"
          /\ result.kind = "record" /\ eff.exchange_sent > 0
       THEN result.data.access_token
       ELSE NoTok
  /\ call' = NoCall
  /\ eff' = NoEffects
  /\ result' = NoResult
  /\ UNCHANGED <<now, cache, code, server, start_time, code_verifier,
                 auth_code, hist>>

\* The socket of a stopped server is closed when the server object is
\* collected (get_authorization_code never calls server_close()).
ReleaseSocket ==
  /\ pc = "idle"
  /\ server = "shutdown"
  /\ server' = "none"
  /\ UNCHANGED <<now, cache, code, pc, start_time, code_verifier, auth_code,
                 call, eff, result, prev_exchange, hist>>

Next ==
  \/ \E d \in ClockReadings : Tick(d)
  \/ \E resp \in Responses : get_authorization_header(resp)
  \/ \E conn \in Connections, resp \in Responses : ConnectionCall(conn, resp)
  \/ \E resp \in Responses, v \in Verifiers, busy \in BOOLEAN :
        authenticate(resp, v, busy)
  \/ \E q \in Codes \cup {NoTok} : do_GET(q)
  \/ IdleConnection
  \/ ConnectionClosed
  \/ PollCode
  \/ PollTimeout
  \/ Interrupt
  \/ ShutdownServer
  \/ \E resp \in Responses : Exchange(resp)
  \/ Return
  \/ ReleaseSocket

Spec == Init /\ [][Next]_vars

\* The program started on a machine without ~/.adobe_mcp/tokens.json.
InitNoCache == Init /\ cache = AbsentFile

FromNoCache == InitNoCache /\ [][Next]_vars

\* What keeps a call moving: the clock advances, the polling loop of
\* get_authorization_code runs once a second and acts whenever it can, and
\* the token endpoint answers or the request times out (REQUEST_TIMEOUT).
\* Nothing makes a client of the listener send its request or hang up.
Fairness ==
  /\ WF_vars(\E d \in ClockReadings : Tick(d))
  /\ WF_vars(PollCode)
  /\ SF_vars(PollTimeout)
  /\ SF_vars(ShutdownServer)
  /\ WF_vars(\E resp \in Responses : Exchange(resp))

LiveSpec == InitNoCache /\ [][Next]_vars /\ Fairness

\* ------------------------------------------- save_tokens, step by step
\* save_tokens() lines 147-148 next to a load_tokens() of another thread or
\* process (an API wrapper calling get_authorization_header()).  open(..., "w")
\* truncates tokens.json in place, json.dump writes the text into it, and
\* leaving the with block flushes and closes it.  Here pc is the writer's
\* position, call the save in progress, eff.exchange_resp the token data
\* being saved and result what the other side's load last observed.

\* load_tokens lines 157-161 as the reader runs them: the exists() test and
\* json.load on whatever the file holds at that moment.
ReadFile(file, current_time) ==
  CASE file.kind = "absent" ->
         Returned("None", AbsentFile, NoHeader, "none", current_time)
    [] file.kind = "malformed" ->
         Returned("raise", file, NoHeader, "JSONDecodeError", current_time)
    [] OTHER -> Returned("record", file, NoHeader, "none", current_time)

\* save_tokens line 147: open(token_file, "w") creates or truncates the file;
\* an empty file is one json.load cannot parse.
SaveOpen(resp) ==
  /\ pc = "idle"
  /\ resp.status = "ok"
  /\ cache' = MalformedFile
  /\ call' = [op |-> "save_tokens", at |-> now, pre |-> cache]
  /\ eff' = [NoEffects EXCEPT !.exchange_resp = resp]
  /\ result' = NoResult
  /\ pc' = "save_open"
  /\ UNCHANGED <<now, code, server, start_time, code_verifier, auth_code,
                 prev_exchange, hist>>

\* save_tokens line 148: json.dump has written part of the text and the
\* buffer was flushed; the file holds the beginning of a JSON object.
SaveFlush ==
  /\ pc = "save_open"
  /\ pc' = "save_dump"
  /\ UNCHANGED <<now, cache, code, server, start_time, code_verifier,
                 auth_code, call, eff, result, prev_exchange, hist>>

\* save_tokens lines 148-151: the rest of the text is written and the file
\* is closed.
SaveClose ==
  /\ pc \in {"save_open", "save_dump"}
  /\ cache' = save_tokens(ResponseJson(eff.exchange_resp), call.at)
  /\ pc' = "done"
  /\ UNCHANGED <<now, code, server, start_time, code_verifier, auth_code,
                 call, eff, result, prev_exchange, hist>>

\* save_tokens lines 147-148: the write fails (disk full, process killed)
\* after the file was truncated; nothing restores the previous content.
SaveFail ==
  /\ pc \in {"save_open", "save_dump"}
  /\ pc' = "save_failed"
  /\ UNCHANGED <<now, cache, code, server, start_time, code_verifier,
                 auth_code, call, eff, result, prev_exchange, hist>>

\* load_tokens lines 157-161 on the other side, at any moment of the save.
ReaderLoad ==
  /\ pc # "idle"
  /\ result' = ReadFile(cache, now)
  /\ UNCHANGED <<now, cache, code, server, pc, start_time, code_verifier,
                 auth_code, call, eff, prev_exchange, hist>>

\* save_tokens returned or raised; the caller goes on.
SaveReturn ==
  /\ pc \in {"done", "save_failed"}
  /\ pc' = "idle"
  /\ call' = NoCall
  /\ eff' = NoEffects
  /\ result' = NoResult
  /\ UNCHANGED <<now, cache, code, server, start_time, code_verifier,
                 auth_code, prev_exchange, hist>>

SaveNext ==
  \/ \E resp \in OkResponses : SaveOpen(resp)
  \/ SaveFlush
  \/ SaveClose
  \/ SaveFail
  \/ ReaderLoad
  \/ SaveReturn

SaveSpec == Init /\ [][SaveNext]_vars

\* ------------------------------------------------------------ properties
\* The freshness test of the design: now - issuedAt <= expiresIn - 300.
isFresh(record, t) ==
  /\ record.kind = "record"
  /\ t - Timestamp(record) <= ExpiresIn(record) - REFRESH_MARGIN

\* The consent flow was started by the call in progress: a PKCE pair was
\* generated and the listener was bound and the browser opened, unless the
\* bind itself failed.
ConsentStarted ==
  /\ eff.pkce
  /\ \/ eff.listener /\ eff.browser
     \/ pc = "done" /\ result.kind = "raise" /\ result.exc = "OSError"

\* C1: whenever get_authorization_header() returns a header or authenticate()
\* returns a token record, that record is fresh at the moment of return
\* (at least 300 s of validity remain); a stale record without a refresh
\* token yields None, not a header.
C1_ReturnedTokenIsFresh ==
  (pc = "done" /\ result.kind \in {"header", "record"})
    => isFresh(result.data, result.at)

\* C2: when the cache holds a fresh record, authenticate() returns that record
\* at once: no token request, no PKCE pair, no listener, no browser, and the
\* cache file is not rewritten.
C2_FreshCacheReturnedAtOnce ==
  (call.op = "authenticate" /\ isFresh(call.pre, call.at))
    => /\ pc = "done"
       /\ result.kind = "record"
       /\ result.data = call.pre
       /\ result.at = call.at
       /\ cache = call.pre
       /\ eff.refresh_sent = 0 /\ eff.exchange_sent = 0 /\ eff.writes = 0
       /\ ~eff.pkce /\ ~eff.listener /\ ~eff.browser

C2_Witness ==
  /\ pc = "done" /\ call.op = "authenticate"
  /\ isFresh(call.pre, call.at)
  /\ call.at - Timestamp(call.pre) = ExpiresIn(call.pre) - REFRESH_MARGIN
  /\ call.pre.refresh_token # NoTok
  /\ result.kind = "record"

\* C3: when the cache is absent, or holds a stale record without a refresh
\* token, authenticate() starts the consent flow (PKCE pair, listener,
\* authorization URL) instead of returning the stale record.
C3_AbsentOrStaleStartsConsent ==
  ( /\ call.op = "authenticate"
    /\ \/ call.pre.kind = "absent"
       \/ /\ call.pre.kind = "record"
          /\ ~isFresh(call.pre, call.at)
          /\ call.pre.refresh_token = NoTok )
    => ConsentStarted

\* C4: get_authorization_header() never starts interactive consent: it binds
\* no listener, generates no PKCE pair, opens no browser, sends no
\* authorization_code request, and sends at most one refresh request.
C4_HeaderNeverInteractive ==
  call.op = "header"
    => /\ pc = "done"
       /\ ~eff.pkce /\ ~eff.listener /\ ~eff.browser
       /\ eff.exchange_sent = 0
       /\ eff.refresh_sent <= 1

C4_Witness ==
  /\ pc = "done" /\ call.op = "header"
  /\ eff.refresh_sent = 1 /\ eff.refresh_resp.status = "rejected"
  /\ result.kind = "None"

\* C5: a call that finds a stale record with a refresh token sends one refresh
\* request with that token; on success the saved record holds the new access
\* token and the response's refresh token, or the previous refresh token when
\* the response has none.
C5_RefreshKeepsRefreshToken ==
  ( /\ call.op # "none"
    /\ call.pre.kind = "record"
    /\ ~isFresh(call.pre, call.at)
    /\ call.pre.refresh_token # NoTok )
    => /\ eff.refresh_sent = 1
       /\ eff.refresh_token = call.pre.refresh_token
       /\ eff.refresh_resp.status = "ok"
            => /\ pc = "done"
               /\ cache.kind = "record"
               /\ cache.access_token = eff.refresh_resp.access_token
               /\ cache.refresh_token =
                    IF eff.refresh_resp.refresh_token = NoTok
                    THEN call.pre.refresh_token
                    ELSE eff.refresh_resp.refresh_token

C5_Witness ==
  /\ pc = "done" /\ call.op = "header"
  /\ eff.refresh_resp.status = "ok"
  /\ eff.refresh_resp.refresh_token = NoTok
  /\ call.pre.refresh_token = "r1"
  /\ cache.refresh_token = "r1"
  /\ cache.access_token = eff.refresh_resp.access_token
  /\ cache.access_token # call.pre.access_token

\* C6: when authenticate() finds a stale record whose refresh the provider
\* rejects, it does not raise because of that: it goes on into the consent
\* flow within the same call.
C6_RejectedRefreshFallsThrough ==
  (call.op = "authenticate" /\ eff.refresh_resp.status = "rejected")
    => /\ ConsentStarted
       /\ ~(result.kind = "raise" /\ result.exc = "AuthError")

C6_Witness ==
  /\ pc = "wait" /\ call.op = "authenticate"
  /\ eff.refresh_resp.status = "rejected"
  /\ eff.listener /\ eff.browser

\* C7: when the code-for-token exchange gets a non-success status,
\* authenticate() reports failure and the cache file is exactly what it was
\* before the call.
C7_FailedExchangeLeavesCache ==
  (pc = "done" /\ eff.exchange_sent > 0 /\ eff.exchange_resp.status = "rejected")
    => /\ result.kind = "None"
       /\ cache = call.pre

C7_Witness ==
  /\ pc = "done" /\ eff.exchange_sent > 0
  /\ eff.exchange_resp.status = "rejected"
  /\ call.pre.kind = "record"
  /\ cache = call.pre
  /\ result.kind = "None"

\* C8: every authenticate() call ends by returning a token record or the
\* failure value; no failure condition makes it raise to its caller.
C8_AuthenticateNeverRaises ==
  (pc = "done" /\ call.op = "authenticate")
    => result.kind \in {"record", "None"}

\* C9: loading the cache never raises: with a missing or malformed file
\* load_tokens() returns None, so get_authorization_header() returns None and
\* authenticate() goes on to re-authenticate.
C9_LoadNeverRaises ==
  (call.op # "none" /\ call.pre.kind \in {"absent", "malformed"})
    => /\ ~(result.kind = "raise" /\ result.exc = "JSONDecodeError")
       /\ call.op = "header" => result.kind = "None"
       /\ call.op = "authenticate" => eff.pkce

\* The exchange part of C10: authenticate() that found no file and exchanged
\* a captured code successfully returns the record with the provider's access
\* token, and the cache file holds that record.
ExchangeSavesRecord ==
  ( /\ pc = "done" /\ call.op = "authenticate"
    /\ call.pre.kind = "absent"
    /\ eff.exchange_code \in Codes
    /\ eff.exchange_resp.status = "ok" )
    => /\ result.kind = "record"
       /\ result.data.access_token = eff.exchange_resp.access_token
       /\ cache = result.data

\* C10 as stated: starting with no cache file, after authenticate() exchanged
\* a captured code for access token t, it returns a record with t, the cache
\* holds that record, and a following get_authorization_header() returns
\* 'Bearer t'.
C10_ConsentThenHeader ==
  /\ ExchangeSavesRecord
  /\ (pc = "done" /\ call.op = "header" /\ prev_exchange # NoTok)
       => result.header = Bearer(prev_exchange)

\* C10 amended: ... and a following get_authorization_header() made while
\* that record is still fresh returns 'Bearer t'.
C10_ConsentThenHeaderWhileFresh ==
  /\ ExchangeSavesRecord
  /\ ( /\ pc = "done" /\ call.op = "header" /\ prev_exchange # NoTok
       /\ isFresh(call.pre, call.at) )
       => result.header = Bearer(prev_exchange)

C10_Witness ==
  /\ pc = "done" /\ call.op = "header"
  /\ prev_exchange # NoTok
  /\ isFresh(call.pre, call.at)
  /\ cache.access_token = prev_exchange
  /\ result.header = Bearer(prev_exchange)

\* C11: when the listener gets no request within 300 s, authenticate()
\* returns failure, and after an attempt has ended (by timeout or by a
\* captured code) the port is released: the next bind succeeds unless another
\* process holds the port.
C11_PortReleasedAfterAttempt ==
  /\ ( /\ pc = "done" /\ eff.listener /\ eff.exchange_sent = 0
       /\ result.kind # "raise" )
       => result.kind = "None"
  /\ (eff.pkce /\ ~eff.port_busy /\ server # "serving") => eff.listener

\* C12: an authorization code is single-use and belongs to its attempt: no
\* captured code is sent to the token endpoint twice, and the code an attempt
\* exchanges was captured during that attempt.
C12_CodeSingleUse ==
  eff.exchange_sent > 0
    => /\ ~eff.exchange_resent
       /\ eff.first_code # NoTok

\* The save part of C13: whatever is saved carries the clock reading of the
\* save as its timestamp, whatever timestamp the provider's answer had, and
\* the other fields of the answer unchanged.
SaveStampsClock ==
  (pc = "done" /\ eff.writes > 0)
    => LET resp == IF eff.exchange_sent > 0 THEN eff.exchange_resp
                   ELSE eff.refresh_resp
       IN /\ cache.kind = "record"
          /\ cache.timestamp = result.at
          /\ cache.access_token = resp.access_token
          /\ cache.expires_in = resp.expires_in
          /\ result.data = cache

\* C13 as stated: save_tokens() stamps the save-time clock reading over any
\* timestamp in its input, and a load at that same time returns the saved
\* record unchanged.
C13_SaveLoadRoundTrip ==
  /\ SaveStampsClock
  /\ ( /\ call.op # "none" /\ call.pre.kind = "record"
       /\ call.pre.timestamp = call.at )
       => /\ pc = "done"
          /\ result.data = call.pre
          /\ cache = call.pre

\* C13 amended: ... and a load at that same time returns the saved record
\* unchanged when that record is fresh then (expires_in >= 300).
C13_SaveLoadRoundTripWhenFresh ==
  /\ SaveStampsClock
  /\ ( /\ call.op # "none" /\ call.pre.kind = "record"
       /\ call.pre.timestamp = call.at
       /\ isFresh(call.pre, call.at) )
       => /\ pc = "done"
          /\ result.data = call.pre
          /\ cache = call.pre

C13_Witness ==
  /\ pc = "done" /\ call.op = "header"
  /\ call.at > StartTime
  /\ call.pre.timestamp = call.at
  /\ isFresh(call.pre, call.at)
  /\ result.data = call.pre
  /\ cache = call.pre

\* C14: the cache path's freshness test is exactly now - timestamp <=
\* expires_in - 300, boundary included, and a record that carries a refresh
\* token is refreshed iff it is not fresh; a one-hour record issued 3400 s
\* ago is stale, one issued 100 s ago or exactly 3300 s ago is fresh.
C14_FreshnessTest ==
  (call.op # "none" /\ call.pre.kind = "record")
    => LET age == call.at - Timestamp(call.pre)
           limit == ExpiresIn(call.pre) - REFRESH_MARGIN
       IN /\ (age <= limit) <=> (eff.judged = "fresh")
          /\ call.pre.refresh_token # NoTok
               => ((age <= limit) <=> (eff.refresh_sent = 0))
          /\ (call.pre.expires_in = HourLife /\ age = 3400)
               => eff.judged = "stale"
          /\ (call.pre.expires_in = HourLife /\ age = 100)
               => eff.judged = "fresh"
          /\ (call.pre.expires_in = HourLife /\ age = HourLife - 300)
               => eff.judged = "fresh"

C14_Witness ==
  /\ pc = "done"
  /\ call.pre.kind = "record"
  /\ call.pre.expires_in = HourLife
  /\ call.at - call.pre.timestamp = 3400
  /\ call.pre.refresh_token # NoTok
  /\ eff.judged = "stale"
  /\ eff.refresh_sent = 1

\* C15: freshness is monotonic in time: a cached record that was judged
\* stale is never judged fresh by a later call while the cache is not
\* rewritten.
C15_StaleStaysStale ==
  eff.stale_before # Missing => eff.judged # "fresh"

C15_Witness ==
  /\ pc = "done"
  /\ eff.stale_before # Missing
  /\ eff.stale_before < call.at
  /\ eff.judged = "stale"
  /\ cache = call.pre

\* C16: get_authorization_header() returns None or 'Bearer ' followed by the
\* access token of the record the cache file holds when it returns; after a
\* successful refresh that is the new access token.
C16_HeaderMatchesCache ==
  (pc = "done" /\ call.op = "header" /\ result.kind # "raise")
    => \/ result.kind = "None" /\ result.header = NoHeader
       \/ /\ result.kind = "header"
          /\ cache.kind = "record"
          /\ result.header = Bearer(cache.access_token)
          /\ eff.refresh_resp.status = "ok"
               => result.header = Bearer(eff.refresh_resp.access_token)

C16_Witness ==
  /\ pc = "done" /\ call.op = "header"
  /\ eff.refresh_resp.status = "ok"
  /\ eff.refresh_resp.access_token # call.pre.access_token
  /\ result.header = Bearer(eff.refresh_resp.access_token)
  /\ cache.access_token = eff.refresh_resp.access_token

\* C17: a refresh token the provider has answered with an error status is
\* never sent to the token endpoint again by a later call.
C17_RejectedGrantNotRetried ==
  ~eff.refresh_retry

\* C18: on every exit path of an interactive attempt the redirect listener
\* has been stopped when authenticate() returns or raises.
C18_ListenerStoppedOnExit ==
  (pc = "done" /\ eff.listener) => server # "serving"

\* C19: a redirect request without a code parameter is answered 400 and ends
\* the attempt as denied: authenticate() fails and accepts no later code for
\* that attempt.
C19_DenialEndsAttempt ==
  (call.op = "authenticate" /\ eff.denied)
    => /\ eff.exchange_sent = 0
       /\ (pc = "done" /\ result.kind # "raise") => result.kind = "None"

\* C20: within one attempt the code handed to the token exchange is the code
\* of the first request that carried one; a later request with another code
\* does not change it.
C20_FirstCodeWins ==
  (eff.exchange_sent > 0 /\ eff.first_code # NoTok)
    => eff.exchange_code = eff.first_code

\* C21: saving the cache is atomic for concurrent loads and for failures:
\* at every point of save_tokens() the file holds the complete previous
\* content or the complete new record, and a load that runs meanwhile
\* observes one of the two, never an empty or partly written file.
C21_SaveIsAtomic ==
  call.op = "save_tokens"
    => LET new == save_tokens(ResponseJson(eff.exchange_resp), call.at)
       IN /\ cache \in {call.pre, new}
          /\ result.kind # "none"
               => ReadFile(call.pre, result.at) = result
                  \/ ReadFile(new, result.at) = result

\* C22: one call to authenticate() or get_authorization_header() sends at
\* most one refresh_token request and at most one authorization_code request,
\* and a non-success answer ends that grant with a failure: a rejected
\* exchange makes authenticate() return its failure value, a rejected refresh
\* makes get_authorization_header() return None.
C22_NoAutomaticRetry ==
  call.op \in {"header", "authenticate"}
    => /\ eff.refresh_sent <= 1
       /\ eff.exchange_sent <= 1
       /\ (pc = "done" /\ eff.exchange_resp.status = "rejected")
            => result.kind = "None"
       /\ (pc = "done" /\ call.op = "header"
           /\ eff.refresh_resp.status = "rejected")
            => result.kind = "None"

C22_Witness ==
  /\ pc = "done" /\ call.op = "authenticate"
  /\ eff.refresh_sent = 1 /\ eff.refresh_resp.status = "rejected"
  /\ eff.exchange_sent = 1 /\ eff.exchange_resp.status = "rejected"
  /\ result.kind = "None"

\* The S256 transformation of RFC 7636 on the verifier domain.
S256(verifier) == (verifier * 7 + 3) % 11

C24_BusyPortFailsAtBind ==
  /\ eff.browser => eff.listener
  /\ (eff.port_busy \/ (result.kind = "raise" /\ result.exc = "OSError"))
       => /\ pc = "done"
          /\ result.kind = "raise"
          /\ ~eff.listener /\ ~eff.browser
          /\ eff.exchange_sent = 0
          /\ cache = call.pre

C24_Witness ==
  /\ pc = "done" /\ call.op = "authenticate"
  /\ eff.port_busy
  /\ result.exc = "OSError"
  /\ call.pre.kind = "record"
  /\ ~eff.browser
  /\ cache = call.pre

\* C25: starting without a cache file, after any sequence of calls the file
\* exists only if an exchange or a refresh has succeeded, and it holds the one
\* record the most recent of them saved; a call that fails, or that saves
\* nothing, leaves the file as it found it.
C25_CacheIsLastSave ==
  /\ cache.kind \in {"absent", "record"}
  /\ cache = hist.saved
  /\ (pc = "done" /\ (eff.writes = 0 \/ result.kind \in {"None", "raise"}))
       => cache = call.pre

C25_Witness ==
  /\ pc = "done" /\ call.op = "header"
  /\ call.pre.kind = "record"
  /\ eff.writes = 1
  /\ cache # call.pre
  /\ cache = hist.saved
  /\ cache.access_token = eff.refresh_resp.access_token

\* C26: every authenticate() call eventually returns or raises: the wait for
\* the redirect is ended by a captured code or by the 300 s timeout, and the
\* call then finishes.  (Stated for the attempts that begin before the last
\* clock reading, so that the clock can pass their timeout.)
C26_AuthenticateReturns ==
  (call.op = "authenticate" /\ call.at < StartTime + HourLife)
    ~> (pc = "done")

\* What C27 promises of a call: the record it found is judged fresh and
\* returned as it is, with no token request, no listener and no write.
ReturnedFromCache ==
  /\ pc = "done"
  /\ eff.judged = "fresh"
  /\ result.kind \in {"header", "record"}
  /\ result.data = call.pre
  /\ eff.refresh_sent = 0 /\ eff.exchange_sent = 0
  /\ ~eff.listener
  /\ cache = call.pre

\* C27 as stated: whatever the provider answered, a call made at the clock
\* reading of the save finds the saved record fresh and returns it without a
\* network call.
C27_SaveLeavesCached ==
  ( /\ call.op \in {"header", "authenticate"}
    /\ call.pre.kind = "record"
    /\ call.pre.timestamp = call.at )
    => ReturnedFromCache

\* C27 amended: ... for a provider answer whose expires_in is at least 300
\* (or is not given).
C27_SaveLeavesCachedWhenLongLived ==
  ( /\ call.op \in {"header", "authenticate"}
    /\ call.pre.kind = "record"
    /\ call.pre.timestamp = call.at
    /\ (call.pre.expires_in = Missing \/ call.pre.expires_in >= REFRESH_MARGIN) )
    => ReturnedFromCache

C27_Witness ==
  /\ pc = "done" /\ call.op = "authenticate"
  /\ call.at > StartTime
  /\ call.pre.timestamp = call.at
  /\ call.pre.access_token \in AccessTokens
  /\ call.pre.refresh_token # NoTok
  /\ call.pre.expires_in >= REFRESH_MARGIN
  /\ result.kind = "record"
  /\ result.data = call.pre
  /\ eff.refresh_sent = 0

\* C28: every authorization_code request pairs a code with the verifier of
\* the same attempt: the code it sends was captured by the listener of the
\* attempt that drew the verifier and sent its challenge.
C28_CodeAndVerifierOfOneAttempt ==
  eff.exchange_sent > 0
    => /\ eff.challenge = S256(eff.exchange_verifier)
       /\ eff.first_code # NoTok
       /\ eff.exchange_code = code

\* C29: a refresh the provider rejects leaves the cache file as it was (the
\* stale record, its refresh token and its timestamp), and
\* get_authorization_header() returns None, not the stale access token.
C29_RejectedRefreshKeepsCache ==
  eff.refresh_resp.status = "rejected"
    => /\ eff.exchange_sent = 0 => cache = call.pre
       /\ call.op = "header"
            => /\ pc = "done"
               /\ result.kind = "None"
               /\ result.header = NoHeader

C29_Witness ==
  /\ pc = "done" /\ call.op = "header"
  /\ eff.refresh_resp.status = "rejected"
  /\ call.pre.access_token = "tok0"
  /\ call.pre.refresh_token = "r1"
  /\ call.pre.timestamp # Missing
  /\ cache = call.pre
  /\ result.header = NoHeader

\* C30: a record without expires_in is aged with a lifetime of 86400 s (fresh
\* up to 86100 s after its timestamp), and a record without a timestamp is
\* aged from epoch 0: it is judged stale on every load, and when it carries a
\* refresh token every load sends a refresh request with that token.
C30_DefaultsForMissingKeys ==
  call.pre.kind = "record"
    => /\ (call.pre.expires_in = Missing /\ call.pre.timestamp # Missing)
            => ((eff.judged = "fresh")
                  <=> (call.at - call.pre.timestamp
                         <= DEFAULT_EXPIRES_IN - REFRESH_MARGIN))
       /\ call.pre.timestamp = Missing
            => /\ eff.judged = "stale"
               /\ call.pre.refresh_token # NoTok
                    => /\ eff.refresh_sent = 1
                       /\ eff.refresh_token = call.pre.refresh_token

C30_Witness ==
  /\ pc = "done"
  /\ call.pre.kind = "record"
  /\ call.pre.expires_in = Missing
  /\ call.pre.timestamp = Missing
  /\ call.pre.refresh_token # NoTok
  /\ eff.stale_before # Missing
  /\ eff.judged = "stale"
  /\ eff.refresh_sent = 1

\* C31: a resource-API wrapper sends no request without an Authorization
\* header: when get_authorization_header() returns None, get_headers() of
\* the Lightroom and of the Aero wrapper raises its "Not authenticated" error
\* and no request goes out; a request that goes out carries the header
\* get_authorization_header() returned; and the wrapper starts no consent
\* flow.
C31_NoRequestWithoutHeader ==
  (call.op = "header" /\ eff.conn \in Connections)
    => /\ pc = "done"
       /\ eff.api_sent
            => /\ result.kind = "header"
               /\ eff.api_authorization # NoHeader
               /\ eff.api_authorization = result.header
       /\ result.kind = "None"
            => /\ ~eff.api_sent
               /\ eff.conn = "Lightroom" => eff.api_error = "LightroomError"
               /\ eff.conn = "Aero" => eff.api_error = "AeroError"
       /\ result.kind = "raise" => ~eff.api_sent
       /\ ~eff.pkce /\ ~eff.listener /\ ~eff.browser
       /\ eff.exchange_sent = 0

C31_Witness ==
  /\ pc = "done" /\ call.op = "header"
  /\ eff.conn = "Lightroom"
  /\ call.pre.kind = "record"
  /\ eff.refresh_resp.status = "rejected"
  /\ result.kind = "None"
  /\ eff.api_error = "LightroomError"
  /\ ~eff.api_sent

====
